---- MODULE Spec2Model ----
(***************************************************************************)
(* A model of src/vehicle.py: the parameter classes of a multirotor        *)
(* (PropellerParams, VehicleParams) and the derivations their              *)
(* __post_init__ methods perform.                                          *)
(*                                                                         *)
(* Numbers.  The source computes in IEEE doubles; the model computes in    *)
(* exact arithmetic over small integers and rationals <<n, d>>.  Angles    *)
(* are whole quarter turns (q stands for q*pi/2), so that sin and cos are  *)
(* exactly -1, 0 or 1; every "equals" of the model is "equals within       *)
(* rounding" of the source.                                                *)
(***************************************************************************)
EXTENDS Integers, Sequences, FiniteSets, TLC

\* A Python reference is a tagged record, so that None, a missing attribute and
\* a value of any type can be told apart: None, a value Some(v), an attribute
\* __post_init__ has not assigned yet (Unset), an argument the caller leaves
\* out (Omitted).
None == [tag |-> "None"]
Unset == [tag |-> "Unset"]
Omitted == [tag |-> "Omitted"]
Some(v) == [tag |-> "value", v |-> v]
IsNone(o) == o.tag = "None"
IsValue(o) == o.tag = "value"

\* No exception raised.
NoExc == "none"

\* ------------------------------------------------------------------------
\* Exact rational arithmetic: <<n, d>> with d > 0 and gcd(n, d) = 1.
\* ------------------------------------------------------------------------
Abs(n) == IF n < 0 THEN -n ELSE n

RECURSIVE Gcd(_, _)
Gcd(a, b) == IF b = 0 THEN a ELSE Gcd(b, a % b)

Rat(n, d) ==
  LET g == Gcd(Abs(n), Abs(d))
      s == IF d < 0 THEN -1 ELSE 1
  IN  <<(s * n) \div g, (s * d) \div g>>

RInt(n) == <<n, 1>>
RZero == <<0, 1>>
ROne == <<1, 1>>
RNeg(p) == <<-p[1], p[2]>>
\* Sums and products cancel common factors before they multiply.
RAdd(p, q) ==
  LET g == Gcd(p[2], q[2])
  IN  Rat(p[1] * (q[2] \div g) + q[1] * (p[2] \div g), (p[2] \div g) * q[2])
RSub(p, q) == RAdd(p, RNeg(q))
RMul(p, q) ==
  LET g1 == Gcd(Abs(p[1]), q[2])
      g2 == Gcd(Abs(q[1]), p[2])
  IN  <<(p[1] \div g1) * (q[1] \div g2), (p[2] \div g2) * (q[2] \div g1)>>
RInv(q) == IF q[1] < 0 THEN <<-q[2], -q[1]>> ELSE <<q[2], q[1]>>
RDiv(p, q) == RMul(p, RInv(q))

\* Vectors are sequences, a matrix is a sequence of rows.  Vec makes the tuple
\* of a function over 1..n, so that its entries are computed once.
Vec(f) == <<>> \o f

RECURSIVE RSum(_)
RSum(v) == IF v = <<>> THEN RZero ELSE RAdd(Head(v), RSum(Tail(v)))

RDot(u, v) == RSum(Vec([i \in 1..Len(u) |-> RMul(u[i], v[i])]))
RMatVec(m, v) == Vec([i \in 1..Len(m) |-> RDot(m[i], v)])
RColumn(m, j) == Vec([i \in 1..Len(m) |-> m[i][j]])
ToRat(m) == Vec([i \in 1..Len(m) |-> Vec([j \in 1..Len(m[i]) |-> RInt(m[i][j])])])

\* m (r x k) times n (k x c); the shape is given, since a matrix with no rows
\* or no columns does not carry it.
RMatMul(m, n, r, k, c) ==
  Vec([i \in 1..r |-> Vec([j \in 1..c |->
      RSum(Vec([l \in 1..k |-> RMul(m[i][l], n[l][j])]))])])

\* ------------------------------------------------------------------------
\* The two numpy.linalg primitives __post_init__ calls.
\* ------------------------------------------------------------------------

\* The determinant of a 3 x 3 matrix.
Det3(m) ==
    m[1][1] * (m[2][2] * m[3][3] - m[2][3] * m[3][2])
  - m[1][2] * (m[2][1] * m[3][3] - m[2][3] * m[3][1])
  + m[1][3] * (m[2][1] * m[3][2] - m[2][2] * m[3][1])

\* The cofactor of entry (i, j) of a 3 x 3 matrix.
Cofactor3(m, i, j) ==
  LET r1 == IF i = 1 THEN 2 ELSE 1
      r2 == IF i = 3 THEN 2 ELSE 3
      c1 == IF j = 1 THEN 2 ELSE 1
      c2 == IF j = 3 THEN 2 ELSE 3
      minor == m[r1][c1] * m[r2][c2] - m[r1][c2] * m[r2][c1]
  IN  IF (i + j) % 2 = 0 THEN minor ELSE -minor

\* np.linalg.inv raises LinAlgError("Singular matrix") when the factorisation
\* meets a zero pivot, which in exact arithmetic is a zero determinant.
IsSingular(m) == Det3(m) = 0

\* np.linalg.inv of a non-singular 3 x 3 matrix: the adjugate over the determinant.
Inv3(m) ==
  Vec([i \in 1..3 |-> Vec([j \in 1..3 |-> Rat(Cofactor3(m, j, i), Det3(m))])])

\* np.linalg.pinv: the Moore-Penrose pseudoinverse of a matrix with `nr` rows,
\* built one column at a time (Greville): the pseudoinverse of the first k
\* columns, a k x nr matrix.
RECURSIVE Greville(_, _, _)
Greville(A, nr, k) ==
  IF k = 0 THEN <<>>
  ELSE
    LET P  == Greville(A, nr, k - 1)
        a  == RColumn(A, k)
        d  == RMatVec(P, a)
        Ad == Vec([i \in 1..nr |->
                    RSum(Vec([l \in 1..(k - 1) |-> RMul(A[i][l], d[l])]))])
        c  == Vec([i \in 1..nr |-> RSub(a[i], Ad[i])])
        cc == RDot(c, c)
        dP == Vec([j \in 1..nr |->
                    RSum(Vec([l \in 1..(k - 1) |-> RMul(d[l], P[l][j])]))])
        b  == IF cc # RZero
              THEN Vec([j \in 1..nr |-> RDiv(c[j], cc)])
              ELSE Vec([j \in 1..nr |-> RDiv(dP[j], RAdd(ROne, RDot(d, d)))])
    IN  Vec([i \in 1..k |->
           IF i = k THEN b
           ELSE Vec([j \in 1..nr |-> RSub(P[i][j], RMul(d[i], b[j]))])])

\* np.linalg.pinv(a) for an integer matrix a of shape (nr, nc): shape (nc, nr).
pinv(a, nr, nc) == Greville(ToRat(a), nr, nc)

\* np.sin and np.cos of an angle of q quarter turns.
sin(q) == CASE q % 4 = 0 -> 0 [] q % 4 = 1 -> 1 [] q % 4 = 2 -> 0 [] OTHER -> -1
cos(q) == CASE q % 4 = 0 -> 1 [] q % 4 = 1 -> 0 [] q % 4 = 2 -> -1 [] OTHER -> 0

\* numpy's elementwise product of two one-dimensional arrays: equal lengths
\* multiply entry by entry, an array of length 1 is stretched over the other,
\* anything else is a ValueError (shapes cannot be broadcast together).
Broadcastable(u, v) == Len(u) = Len(v) \/ Len(u) = 1 \/ Len(v) = 1
BroadcastLen(u, v) == IF Len(u) = 1 THEN Len(v) ELSE Len(u)
BroadcastMul(u, v) ==
  Vec([i \in 1..BroadcastLen(u, v) |->
         u[IF Len(u) = 1 THEN 1 ELSE i] * v[IF Len(v) = 1 THEN 1 ELSE i]])

\* a[start::step] = value, on a one-dimensional array (0-based indices).
SetSlice(a, start, step, value) ==
  Vec([p \in 1..Len(a) |->
         IF p - 1 >= start /\ (p - 1 - start) % step = 0 THEN value ELSE a[p]])

\* np.ones(n, dtype=int) and np.zeros((rows, cols)).
ones(n) == Vec([p \in 1..n |-> 1])
zeros(rows, cols) == Vec([r \in 1..rows |-> Vec([c \in 1..cols |-> 0])])

\* alloc[r, i] = value, with 0-based r and i.
SetEntry(alloc, r, i, value) ==
  [alloc EXCEPT ![r + 1] = [alloc[r + 1] EXCEPT ![i + 1] = value]]

\* ------------------------------------------------------------------------
\* PropellerParams
\* ------------------------------------------------------------------------

\* The defaults of the diameter and pitch fields (inches).
DefaultDiameter == 6
DefaultPitch == 3

\* diameter * 0.0254, in units of 0.1 mm.
RadiusOf(diameter) == diameter * 254

\* np.pi * R**2, as the coefficient of pi.
DiscAreaOf(R) == R * R

\* np.arctan2(pitch, 2 * np.pi * 3/4 * diameter/2), for positive arguments: the
\* angle whose tangent is pitch / (3 pi diameter / 4), kept as the reduced
\* fraction 4 pitch / 3 diameter that determines it.
ArcTan2(pitch, diameter) == Rat(4 * pitch, 3 * diameter)

\* An angle `scale` times an arctan2.
Angle(scale, atan) == [scale |-> scale, arctan2 |-> atan]

\* float(x)
ToFloat(x) == [dtype |-> "float", v |-> x.v]

\* PropellerParams.__post_init__
PropellerPostInit(p) ==
  LET R == RadiusOf(p.diameter)
  IN  [p EXCEPT
         !.moment_of_inertia = ToFloat(p.moment_of_inertia),
         !.R = Some(R),
         !.A = Some(DiscAreaOf(R)),
         !.theta0 = Some(Angle(Rat(2, 1), ArcTan2(p.pitch, p.diameter))),
         !.theta1 = Some(Angle(Rat(-4, 3), ArcTan2(p.pitch, p.diameter)))]

\* The dataclass-generated __init__ of PropellerParams, __post_init__ included.
NewPropeller(moi, diameter, pitch, kt, kq) ==
  PropellerPostInit(
    [ moment_of_inertia |-> moi, diameter |-> diameter, pitch |-> pitch,
      k_thrust |-> kt, k_torque |-> kq,
      R |-> Unset, A |-> Unset, theta0 |-> Unset, theta1 |-> Unset ])

\* p.<name> = value: a dataclass that is not frozen stores the value and runs
\* nothing else.
SetAttr(p, name, value) == [p EXCEPT ![name] = value]

\* ------------------------------------------------------------------------
\* VehicleParams
\* ------------------------------------------------------------------------

\* np.eye(3), the default of the inertia_matrix field.
eye3 == <<<<1, 0, 0>>, <<0, 1, 0>>, <<0, 0, 1>>>>

\* The dataclass-generated __init__: every field is assigned from its argument
\* or its default, then __post_init__ runs on the object.  The default of
\* inertia_matrix is the one array the class body made: `default` is what that
\* array holds when the constructor is called.
NewVehicle(a, default) ==
  [ propellers             |-> a.propellers,
    angles                 |-> a.angles,
    distances              |-> a.distances,
    clockwise              |-> IF a.clockwise.tag = "Omitted" THEN None ELSE a.clockwise,
    inertia_matrix         |-> IF a.inertia_matrix.tag = "Omitted" THEN default
                               ELSE a.inertia_matrix.v,
    inertia_matrix_inverse |-> Unset,
    alloc                  |-> Unset,
    alloc_inverse          |-> Unset ]

\* What a step of __post_init__ leaves: the object, and the exception it raised.
Ok(s) == [self |-> s, exc |-> NoExc]
Raise(s, e) == [self |-> s, exc |-> e]

\* self.distances = self.distances.astype(float)
AsFloat(d) == [dtype |-> "float", data |-> d.data]
ConvertDistances(s) == Ok([s EXCEPT !.distances = AsFloat(s.distances)])

\* A slip: the singular case caught, the inverse left None.
InvertInertiaCaught(s) ==
  IF IsSingular(s.inertia_matrix)
  THEN Ok([s EXCEPT !.inertia_matrix_inverse = None])
  ELSE Ok([s EXCEPT !.inertia_matrix_inverse = Some(Inv3(s.inertia_matrix))])

\* self.inertia_matrix_inverse = np.linalg.inv(self.inertia_matrix)
InvertInertia(s) ==
  IF IsSingular(s.inertia_matrix)
  THEN Raise(s, "LinAlgError")
  ELSE Ok([s EXCEPT !.inertia_matrix_inverse = Some(Inv3(s.inertia_matrix))])

\* A slip: the two slices exchanged.
AlternatingSpinSwapped(n) == SetSlice(SetSlice(ones(n), 0, 2, -1), 1, 2, 1)

\* The alternating default: ones, then [::2] = 1, then [1::2] = -1.
AlternatingSpin(n) == SetSlice(SetSlice(ones(n), 0, 2, 1), 1, 2, -1)

\* A slip: the default assigned whether or not clockwise was supplied.
DefaultClockwiseAlways(s) ==
  Ok([s EXCEPT !.clockwise = Some(AlternatingSpin(Len(s.propellers)))])

\* if self.clockwise is None: ...
DefaultClockwise(s) ==
  IF IsNone(s.clockwise)
  THEN Ok([s EXCEPT !.clockwise = Some(AlternatingSpin(Len(s.propellers)))])
  ELSE Ok(s)

\* The condition of the allocation branch.
HasCoefficients(props) ==
  /\ \A i \in 1..Len(props) : ~IsNone(props[i].k_thrust)
  /\ \A i \in 1..Len(props) : ~IsNone(props[i].k_torque)

\* One pass of "for i, p in enumerate(self.propellers)": column i of alloc.
\* Reading x[i], y[i] or self.clockwise[i] past the end is an IndexError.
FillColumn(alloc, p, i, x, y, clockwise) ==
  SetEntry(SetEntry(SetEntry(SetEntry(alloc,
    0, i, -p.k_thrust.v),
    1, i, p.k_thrust.v * x[i + 1]),
    2, i, p.k_thrust.v * y[i + 1]),
    3, i, p.k_torque.v * clockwise[i + 1])

\* The loop from index i on: the filled matrix, or the IndexError that ends it.
RECURSIVE FillFrom(_, _, _, _, _, _)
FillFrom(alloc, props, i, x, y, clockwise) ==
  IF i >= Len(props) THEN [exc |-> NoExc, alloc |-> alloc]
  ELSE IF i >= Len(x) \/ i >= Len(y) \/ i >= Len(clockwise)
  THEN [exc |-> "IndexError", alloc |-> alloc]
  ELSE FillFrom(FillColumn(alloc, props[i + 1], i, x, y, clockwise),
                props, i + 1, x, y, clockwise)

\* A slip: the transpose taken for the pseudoinverse.
AllocTranspose(alloc, n) ==
  Vec([i \in 1..n |-> Vec([r \in 1..4 |-> RInt(alloc[r][i])])])

\* self.alloc_inverse = np.linalg.pinv(alloc), for alloc of shape (4, n).
AllocInverse(alloc, n) == pinv(alloc, 4, n)

\* A slip: the else branch leaves the zero matrix and forgets alloc_inverse.
NoAllocationZeros(s) ==
  [s EXCEPT !.alloc = Some(zeros(4, Len(s.propellers)))]

\* else: self.alloc = None; self.alloc_inverse = None
NoAllocation(s) == [s EXCEPT !.alloc = None, !.alloc_inverse = None]

\* The allocation branch and its else.
BuildAllocation(s) ==
  IF HasCoefficients(s.propellers)
  THEN
    IF ~Broadcastable(s.distances.data, s.angles)
    THEN Raise(s, "ValueError")
    ELSE
      LET n == Len(s.propellers)
          x == BroadcastMul(s.distances.data, Vec([i \in 1..Len(s.angles) |-> sin(s.angles[i])]))
          y == BroadcastMul(s.distances.data, Vec([i \in 1..Len(s.angles) |-> cos(s.angles[i])]))
          loop == FillFrom(zeros(4, n), s.propellers, 0, x, y, s.clockwise.v)
      IN  IF loop.exc # NoExc
          THEN Raise(s, loop.exc)
          ELSE Ok([s EXCEPT !.alloc = Some(loop.alloc),
                            !.alloc_inverse = Some(AllocInverse(loop.alloc, n))])
  ELSE Ok(NoAllocation(s))

\* __post_init__ from its first statement to its end: a statement that raises
\* ends it.
Then(out, step(_)) == IF out.exc = NoExc THEN step(out.self) ELSE out
VehiclePostInit(s) ==
  Then(Then(Then(ConvertDistances(s), InvertInertia), DefaultClockwise), BuildAllocation)

\* ------------------------------------------------------------------------
\* The arguments the model constructs vehicles from.
\* ------------------------------------------------------------------------

\* The largest number of propellers of the arguments that vary freely.
MaxN == 2

\* A propeller, as far as VehicleParams reads it.
Propeller(kt, kq) == [k_thrust |-> kt, k_torque |-> kq]
CompletePropellers == {Propeller(Some(1), Some(3)), Propeller(Some(2), Some(1))}
PartialPropellers ==
  {Propeller(None, Some(3)), Propeller(Some(1), None), Propeller(None, None)}

Quarters == 0..3
Distances == {1, 2}
\* A supplied clockwise entry may be any number: 2 stands for those that are
\* neither +1 nor -1.
SuppliedSpins == {1, -1, 2}

IntArray(data) == [dtype |-> "int", data |-> data]
Args(props, angles, dists, cw, inertia) ==
  [propellers |-> props, angles |-> angles, distances |-> IntArray(dists),
   clockwise |-> cw, inertia_matrix |-> inertia]

\* Arrays of a given length with fixed, pairwise different neighbouring entries.
LayoutAngles(n) == Vec([i \in 1..n |-> (i - 1) % 4])
LayoutDistances(n) == Vec([i \in 1..n |-> 1 + ((i - 1) % 2)])
LayoutSpins(n) == Vec([i \in 1..n |-> IF i % 2 = 1 THEN 1 ELSE -1])
UniformSpins(n) == Vec([i \in 1..n |-> 1])

\* Supplied inertia matrices: the symmetric 3 x 3 matrices over {0, 1}.
SymmetricMatrix(a, b, c, d, e, f) == <<<<a, d, e>>, <<d, b, f>>, <<e, f, c>>>>
InertiaMatrices ==
  { SymmetricMatrix(a, b, c, d, e, f) : a \in 0..1, b \in 0..1, c \in 0..1,
                                        d \in 0..1, e \in 0..1, f \in 0..1 }

\* ------------------------------------------------------------------------
\* One construction of a VehicleParams, a statement of __post_init__ at a time.
\* ------------------------------------------------------------------------
VARIABLES
  args,   \* the arguments of the constructor call
  self,   \* the object under construction
  pc,     \* the statement __post_init__ is at; "returned" or "raised" at its end
  exc,    \* the exception the call raised
  prop,      \* a PropellerParams object the caller holds
  heap,      \* the inertia arrays, by identity; 0 is the array of the class default
  vehicles   \* the VehicleParams objects the callers hold

vars == <<args, self, pc, exc, prop, heap, vehicles>>

\* The variables a specification does not use stay as they start.
NoPropeller == prop = None
NoVehicles == heap = <<>> /\ vehicles = <<>>

\* Arrays of one length; every geometry, complete propellers; the default
\* spins, or every propeller spinning clockwise.
GeometryArgs ==
  \E n \in 0..MaxN :
    \E ps \in [1..n -> CompletePropellers], an \in [1..n -> Quarters],
       ds \in [1..n -> Distances],
       cw \in {Omitted, Some(UniformSpins(n))} :
      args = Args(ps, an, ds, cw, Omitted)

\* Arrays of one length; every mix of present and missing coefficients and
\* every supplied spin.
CoefficientArgs ==
  \E n \in 0..MaxN :
    \E ps \in [1..n -> CompletePropellers \cup PartialPropellers],
       cw \in {Omitted, None} \cup {Some(c) : c \in [1..n -> SuppliedSpins]} :
      args = Args(ps, LayoutAngles(n), LayoutDistances(n), cw, Omitted)

\* Arrays whose lengths are chosen independently of the number of propellers.
ShapeArgs ==
  \E n \in 0..MaxN :
    \E ps \in [1..n -> {Propeller(Some(1), Some(3)), Propeller(None, Some(3))}],
       la \in 0..(MaxN + 1), ld \in 0..(MaxN + 1),
       cw \in {Omitted} \cup {Some(LayoutSpins(lc)) : lc \in 0..(MaxN + 1)} :
      args = Args(ps, LayoutAngles(la), LayoutDistances(ld), cw, Omitted)

\* A supplied inertia matrix, singular or not.
InertiaArgs ==
  \E n \in 0..1 :
    \E ps \in [1..n -> {Propeller(Some(1), Some(3)), Propeller(None, Some(3))}],
       cw \in {Omitted, Some(LayoutSpins(n))},
       m \in InertiaMatrices :
      args = Args(ps, LayoutAngles(n), LayoutDistances(n), cw, Some(m))

\* The four-propeller layout of the end-to-end scenario: arms at 0, pi/2, pi
\* and 3pi/2, equal distances, equal coefficients, default spins.
QuadArgs ==
  \E p \in CompletePropellers, d \in Distances :
    args = Args(Vec([i \in 1..4 |-> p]), <<0, 1, 2, 3>>, Vec([i \in 1..4 |-> d]),
                Omitted, Omitted)

Init ==
  /\ GeometryArgs \/ CoefficientArgs \/ ShapeArgs \/ InertiaArgs \/ QuadArgs
  /\ self = NewVehicle(args, eye3)
  /\ pc = "distances"
  /\ exc = NoExc
  /\ NoPropeller
  /\ NoVehicles

\* A slip: an exception swallowed, the next statement run all the same.
GotoRegardless(out, next) ==
  /\ self' = out.self
  /\ exc' = NoExc
  /\ pc' = next
  /\ UNCHANGED <<args, prop, heap, vehicles>>

\* The state after a statement whose outcome is `out`: go on to `next` unless
\* it raised.
Goto(out, next) ==
  /\ self' = out.self
  /\ exc' = out.exc
  /\ pc' = IF out.exc = NoExc THEN next ELSE "raised"
  /\ UNCHANGED <<args, prop, heap, vehicles>>

PostInitDistances ==
  /\ pc = "distances"
  /\ Goto(ConvertDistances(self), "inertia")

PostInitInertia ==
  /\ pc = "inertia"
  /\ Goto(InvertInertia(self), "clockwise")

PostInitClockwise ==
  /\ pc = "clockwise"
  /\ Goto(DefaultClockwise(self), "alloc")

PostInitAlloc ==
  /\ pc = "alloc"
  /\ Goto(BuildAllocation(self), "returned")

Next == PostInitDistances \/ PostInitInertia \/ PostInitClockwise \/ PostInitAlloc

Spec == Init /\ [][Next]_vars

\* ------------------------------------------------------------------------
\* Properties of one construction (Spec).
\* ------------------------------------------------------------------------
NProps == Len(args.propellers)
Returned == pc = "returned"
Terminal == pc \in {"returned", "raised"}
SomeCoefficientMissing ==
  \E i \in 1..NProps :
    IsNone(args.propellers[i].k_thrust) \/ IsNone(args.propellers[i].k_torque)
ClockwiseSupplied == IsValue(args.clockwise)

\* C1: a returned vehicle has alloc and alloc_inverse both present or both
\* None (never unset, never one without the other); they are present exactly
\* when no propeller lacks k_thrust or k_torque; and a missing coefficient
\* never makes construction raise once the inertia matrix has been inverted.
C1_AllocBothOrNeither ==
  /\ Returned =>
       /\ self.alloc.tag \in {"None", "value"}
       /\ self.alloc_inverse.tag = self.alloc.tag
       /\ IsValue(self.alloc) <=> ~SomeCoefficientMissing
  /\ (SomeCoefficientMissing /\ IsValue(self.inertia_matrix_inverse)) => pc # "raised"

\* A vehicle returned with two propellers of which exactly one lacks a coefficient.
C1_Witness ==
  /\ Returned /\ NProps = 2 /\ IsNone(self.alloc) /\ IsNone(self.alloc_inverse)
  /\ IsNone(args.propellers[1].k_thrust)
  /\ IsValue(args.propellers[2].k_thrust) /\ IsValue(args.propellers[2].k_torque)

\* C2: whenever alloc is built it is 4 x N and, for every propeller index i,
\* position i exists in angles, distances and clockwise and column i is
\* [-k_thrust_i, k_thrust_i x_i, k_thrust_i y_i, k_torque_i clockwise_i] with
\* x_i = distance_i sin(angle_i) and y_i = distance_i cos(angle_i).
C2_ColumnsFromOwnIndex ==
  (Returned /\ IsValue(self.alloc)) =>
    /\ Len(self.alloc.v) = 4
    /\ \A r \in 1..4 : Len(self.alloc.v[r]) = NProps
    /\ \A i \in 1..NProps :
         /\ i <= Len(self.angles) /\ i <= Len(self.distances.data)
         /\ i <= Len(self.clockwise.v)
         /\ LET kt == self.propellers[i].k_thrust.v
                kq == self.propellers[i].k_torque.v
                xi == self.distances.data[i] * sin(self.angles[i])
                yi == self.distances.data[i] * cos(self.angles[i])
            IN  /\ self.alloc.v[1][i] = -kt
                /\ self.alloc.v[2][i] = kt * xi
                /\ self.alloc.v[3][i] = kt * yi
                /\ self.alloc.v[4][i] = kq * self.clockwise.v[i]

\* An allocation built for two propellers from a single angle, stretched over
\* both distances.
C2_Witness ==
  /\ Returned /\ IsValue(self.alloc) /\ NProps = 2
  /\ Len(self.angles) = 1 /\ Len(self.distances.data) = 2

\* A singular matrix has a non-zero vector it sends to zero.
HasNullVector(m) ==
  \E v \in [1..3 -> -1..1] :
    /\ \E j \in 1..3 : v[j] # 0
    /\ \A i \in 1..3 : m[i][1] * v[1] + m[i][2] * v[2] + m[i][3] * v[3] = 0

LengthsAgree(s) ==
  /\ Len(s.angles) = Len(s.propellers)
  /\ Len(s.distances.data) = Len(s.propellers)
  /\ IsValue(s.clockwise) => Len(s.clockwise.v) = Len(s.propellers)

\* C4: a call whose sequences differ in length ends in an error (whatever
\* exception stands for the ConfigurationError), and every returned vehicle
\* has angles, distances, clockwise and propellers of one length.
C4_LengthsValidated ==
  /\ (Terminal /\ ~LengthsAgree(NewVehicle(args, eye3))) => pc = "raised"
  /\ Returned => (IsValue(self.clockwise) /\ LengthsAgree(self))

\* A vehicle returned with sequences of different lengths.
C4_Witness == Returned /\ ~LengthsAgree(self)

\* C5: when clockwise is not supplied, after the default statement it has one
\* entry per propeller, +1 at every even index (0 included) and -1 at every
\* odd index; for four propellers it is [+1, -1, +1, -1].
PastClockwise ==
  pc \in {"alloc", "returned"} \/ (pc = "raised" /\ exc # "LinAlgError")
C5_DefaultSpinAlternates ==
  (~ClockwiseSupplied /\ PastClockwise) =>
    /\ IsValue(self.clockwise)
    /\ Len(self.clockwise.v) = NProps
    /\ \A i \in 0..(NProps - 1) :
         self.clockwise.v[i + 1] = IF i % 2 = 0 THEN 1 ELSE -1
    /\ NProps = 4 => self.clockwise.v = <<1, -1, 1, -1>>

\* Four propellers, no clockwise argument, the vehicle returned.
C5_Witness == Returned /\ ~ClockwiseSupplied /\ NProps = 4

\* The four-propeller layout: arms at 0, pi/2, pi, 3pi/2, equal non-zero
\* distances and coefficients, default spins.
QuadLayout ==
  /\ NProps = 4 /\ args.angles = <<0, 1, 2, 3>> /\ ~ClockwiseSupplied
  /\ Len(args.distances.data) = 4
  /\ \A i \in 1..4 :
       /\ args.distances.data[i] = args.distances.data[1]
       /\ args.distances.data[i] # 0
       /\ args.propellers[i] = args.propellers[1]
       /\ IsValue(args.propellers[i].k_thrust) /\ args.propellers[i].k_thrust.v # 0
       /\ IsValue(args.propellers[i].k_torque) /\ args.propellers[i].k_torque.v # 0

\* The omega-squared values a recovered vector is chosen from.
OmegaSquared == 0..2

\* C6: whenever alloc is built, alloc . alloc_inverse . alloc = alloc; and
\* for the four-propeller layout alloc_inverse . (alloc . w) = w for every
\* chosen vector w of per-propeller omega-squared values.
C6_GeneralizedInverse ==
  (Returned /\ IsValue(self.alloc)) =>
    LET A == ToRat(self.alloc.v)
        P == self.alloc_inverse.v
    IN  /\ RMatMul(RMatMul(A, P, 4, NProps, 4), A, 4, 4, NProps) = A
        /\ QuadLayout =>
             \A w \in [1..4 -> OmegaSquared] :
               LET wr == Vec([i \in 1..4 |-> RInt(w[i])])
               IN  RMatVec(P, RMatVec(A, wr)) = wr

\* The four-propeller layout returned with its allocation.
C6_Witness == Returned /\ IsValue(self.alloc) /\ QuadLayout

\* The clockwise field as __init__ left it.
InitialClockwise == NewVehicle(args, eye3).clockwise

C10_SuppliedSpinKept ==
  ClockwiseSupplied =>
    /\ self.clockwise = args.clockwise
    /\ (Returned /\ IsValue(self.alloc)) =>
         \A i \in 1..NProps :
           self.alloc.v[4][i] = args.propellers[i].k_torque.v * args.clockwise.v[i]

\* A returned allocation built from a supplied clockwise with an entry 2.
C10_Witness ==
  /\ Returned /\ IsValue(self.alloc) /\ ClockwiseSupplied /\ NProps = 2
  /\ args.clockwise.v[2] = 2 /\ self.alloc.v[4][2] = 2 * args.propellers[2].k_torque.v


\* ------------------------------------------------------------------------
\* A PropellerParams object and the assignments a caller makes to its fields.
\* ------------------------------------------------------------------------
Diameters == {DefaultDiameter, 5, 10}
Pitches == {DefaultPitch, 4}
Number(dtype, v) == [dtype |-> dtype, v |-> v]

NoConstruction ==
  args = None /\ self = None /\ pc = "idle" /\ exc = NoExc

PropInit ==
  /\ \E moi \in {Number("int", 1), Number("float", 1)},
        d \in Diameters, p \in Pitches,
        kt \in {None, Some(1)}, kq \in {None, Some(3)} :
       prop = NewPropeller(moi, d, p, kt, kq)
  /\ NoConstruction
  /\ NoVehicles

AssignDiameter ==
  /\ \E d \in Diameters : prop' = SetAttr(prop, "diameter", d)
  /\ UNCHANGED <<args, self, pc, exc, heap, vehicles>>

AssignPitch ==
  /\ \E p \in Pitches : prop' = SetAttr(prop, "pitch", p)
  /\ UNCHANGED <<args, self, pc, exc, heap, vehicles>>

AssignThrust ==
  /\ \E kt \in {None, Some(1), Some(2)} : prop' = SetAttr(prop, "k_thrust", kt)
  /\ UNCHANGED <<args, self, pc, exc, heap, vehicles>>

PropNext == AssignDiameter \/ AssignPitch \/ AssignThrust

SpecProp == PropInit /\ [][PropNext]_vars

\* C8: in every state after construction and any assignments to the fields,
\* R, A, theta0 and theta1 are the construction formulas applied to the
\* current diameter and pitch.
C8_DerivedFollowFields ==
  /\ prop.R = Some(RadiusOf(prop.diameter))
  /\ prop.A = Some(DiscAreaOf(RadiusOf(prop.diameter)))
  /\ prop.theta0 = Some(Angle(Rat(2, 1), ArcTan2(prop.pitch, prop.diameter)))
  /\ prop.theta1 = Some(Angle(Rat(-4, 3), ArcTan2(prop.pitch, prop.diameter)))

\* A propeller whose diameter has been assigned a value other than the one
\* its radius was computed from.
C8_Witness == IsValue(prop.R) /\ prop.R.v # RadiusOf(prop.diameter)

\* ------------------------------------------------------------------------
\* Several VehicleParams objects, constructed with and without an
\* inertia_matrix argument, and in-place writes to their inertia arrays.
\* ------------------------------------------------------------------------

\* The largest number of vehicles the callers construct.
MaxVehicles == 2

SuppliedInertia == {SymmetricMatrix(1, 1, 1, 0, 0, 0), SymmetricMatrix(2, 2, 2, 0, 0, 0)}
WrittenValues == {0, 2}

\* The identity of the array of the class default.
DefaultArray == 0

AliasInit ==
  /\ heap = [id \in {DefaultArray} |-> eye3]
  /\ vehicles = <<>>
  /\ NoConstruction
  /\ NoPropeller

\* The object a constructor call returns, with its inertia array by identity.
Vehicle(ref, object, defaulted) ==
  [ inertia_matrix |-> ref,
    inertia_matrix_inverse |-> object.inertia_matrix_inverse,
    clockwise |-> object.clockwise,
    alloc |-> object.alloc,
    alloc_inverse |-> object.alloc_inverse,
    defaulted |-> defaulted,   \* constructed without an inertia_matrix argument
    written |-> FALSE ]        \* its inertia array was written through this object

\* VehicleParams(propellers, angles, distances) for a vehicle of no propellers:
\* the object's inertia_matrix is the array of the class default itself.
ConstructDefault ==
  /\ Len(vehicles) < MaxVehicles
  /\ LET out == VehiclePostInit(
                  NewVehicle(Args(<<>>, <<>>, <<>>, Omitted, Omitted), heap[DefaultArray]))
     IN  vehicles' = IF out.exc = NoExc
                     THEN Append(vehicles, Vehicle(DefaultArray, out.self, TRUE))
                     ELSE vehicles
  /\ UNCHANGED <<args, self, pc, exc, prop, heap>>

\* VehicleParams(propellers, angles, distances, inertia_matrix=m) with an array
\* m the caller has just made.
ConstructWith ==
  /\ Len(vehicles) < MaxVehicles
  /\ \E m \in SuppliedInertia :
       LET ref == Cardinality(DOMAIN heap)
           out == VehiclePostInit(
                    NewVehicle(Args(<<>>, <<>>, <<>>, Omitted, Some(m)), heap[DefaultArray]))
       IN  /\ heap' = [id \in DOMAIN heap \cup {ref} |-> IF id = ref THEN m ELSE heap[id]]
           /\ vehicles' = IF out.exc = NoExc
                          THEN Append(vehicles, Vehicle(ref, out.self, FALSE))
                          ELSE vehicles
  /\ UNCHANGED <<args, self, pc, exc, prop>>

\* v.inertia_matrix[i, i] = x: an in-place write to the array the object holds.
WriteInertia ==
  /\ \E v \in 1..Len(vehicles), i \in 1..3, x \in WrittenValues :
       LET ref == vehicles[v].inertia_matrix
       IN  /\ heap' = [heap EXCEPT ![ref] = [@ EXCEPT ![i] = [@ EXCEPT ![i] = x]]]
           /\ vehicles' = [vehicles EXCEPT ![v].written = TRUE]
  /\ UNCHANGED <<args, self, pc, exc, prop>>

AliasNext == ConstructDefault \/ ConstructWith \/ WriteInertia

SpecAlias == AliasInit /\ [][AliasNext]_vars

\* C9: the array of the class default stays the identity, so every later
\* construction without an argument starts from it; and a vehicle constructed
\* without an argument, whose array was never written through that vehicle,
\* still holds the identity, whatever was written through other vehicles.
C9_FreshDefaultPerInstance ==
  /\ heap[DefaultArray] = eye3
  /\ \A a \in 1..Len(vehicles) :
       (vehicles[a].defaulted /\ ~vehicles[a].written)
         => heap[vehicles[a].inertia_matrix] = eye3

\* Two vehicles constructed without an argument; a write through the first
\* shows in the second.
C9_Witness ==
  /\ Len(vehicles) = 2
  /\ vehicles[1].defaulted /\ vehicles[2].defaulted
  /\ vehicles[1].written /\ ~vehicles[2].written
  /\ heap[vehicles[2].inertia_matrix] # eye3

====
